---- MODULE Spec2Model ----
(***************************************************************************)
(* Event-analysis pipeline of the audio event spotter: the versions of the *)
(* server action analyzeAudioClip (demo-fill, plain, danger, summary), the *)
(* classifier, advisory and summary flows they await, the curation they    *)
(* apply to the classifier's events, and the history client that starts    *)
(* analyses from chosen files and keeps their results.                     *)
(*                                                                         *)
(* Units: confidences are in hundredths (0.8 -> 80), times in tenths of a  *)
(* second (1.5 s -> 15).  Strings the code inspects (labels, ids) are      *)
(* sequences of character codes; strings it only passes on are strings.    *)
(***************************************************************************)
EXTENDS Integers, Sequences, FiniteSets, TLC

VARIABLES
    variant,                \* which version of analyzeAudioClip is deployed
    requiredEvents,         \* Object.keys(eventTypesForStats)
    pc,                     \* position of the analysis in flight
    classificationResult,   \* events of the classifier's response
    detectedEvents,         \* filtered and sorted events
    finalEvents,            \* the list after fill and forced sneeze, before the cap
    dangerousEventsFound,   \* labels handed to the advisory generator
    advisoryCalls,          \* invocations of generatePrecautionMessage in this analysis
    result,                 \* the AnalysisResult returned
    recurated,              \* TRUE when result is a second curation of prevEvents
    prevEvents,             \* the events of the first curation
    classifierOutput,       \* what the classifier prompt gave: "pending", "object", "null", "error"
    advisoryOutput,         \* what the advisory prompt gave: "pending", "object", "null", "error"
    summaryCalls,           \* invocations of summarizeInsights in this analysis
    returnedEvents,         \* the events as classifyAudioEvents returned them
    analyses,               \* the client's analyses, in the order their files were chosen
    analysisHistory,        \* useState<AnalysisState[]>([])
    isLoading,              \* useState(false)
    error,                  \* useState<string | null>(null)
    toast,                  \* title of the last toast shown
    now,                    \* the reading of Date.now()
    analysis,               \* single-result client: useState<AnalysisState | null>(null)
    exampleClips,           \* single-result client: useState<{doorSlam, phoneRing} | null>(null)
    audioRef,               \* the analysis whose <audio> element audioRef.current is, 0 for null
    currentTime,            \* currentTime of the <audio> element of each analysis in the history
    mediaRecorderRef,       \* the recording whose MediaRecorder mediaRecorderRef.current is, 0 for null
    recordings,             \* the MediaRecorder objects created so far
    isRecording,            \* useState(false)
    hasMicPermission,       \* useState(false)
    timers,                 \* the pending setTimeout callbacks
    clock                   \* seconds since the component was mounted

\* the flows' outcomes recorded for one analysis
flowVars == <<classifierOutput, advisoryOutput, summaryCalls, returnedEvents>>

\* the state only the single-result client has
singleVars == <<analysis, exampleClips>>

\* the audio players of the history
playerVars == <<audioRef, currentTime>>

\* the microphone recorder
recorderVars == <<mediaRecorderRef, recordings, isRecording, hasMicPermission,
                  timers, clock>>

\* what the steps of the file analyses leave alone
uiVars == <<singleVars, playerVars, recorderVars>>

\* the state of the client components
clientVars == <<analyses, analysisHistory, isLoading, error, toast, now, uiVars>>

vars == <<variant, requiredEvents, pc, classificationResult, detectedEvents,
          finalEvents, dangerousEventsFound, advisoryCalls, result,
          recurated, prevEvents, flowVars, clientVars>>

----------------------------------------------------------------------------
(* Bounds *)

\* longest classifier response explored
MaxRaw == 6

\* most analyses the client starts
MaxAnalyses == 2

\* last reading of the clock
MaxClock == 1

\* the recorder's clock stops after this many steps of 5 s
MaxTicks == 3

----------------------------------------------------------------------------
(* Strings as character codes *)

\* "glass break"
GlassBreak == <<103, 108, 97, 115, 115, 32, 98, 114, 101, 97, 107>>
\* "shout detected"
ShoutDetected == <<115, 104, 111, 117, 116, 32, 100, 101, 116, 101, 99, 116, 101, 100>>
\* "siren freq"
SirenFreq == <<115, 105, 114, 101, 110, 32, 102, 114, 101, 113>>
\* "heavy impact"
HeavyImpact == <<104, 101, 97, 118, 121, 32, 105, 109, 112, 97, 99, 116>>
\* "conversation"
ConversationCat == <<99, 111, 110, 118, 101, 114, 115, 97, 116, 105, 111, 110>>
\* "dog bark"
DogBark == <<100, 111, 103, 32, 98, 97, 114, 107>>
\* "baby sneeze"
BabySneezeCat == <<98, 97, 98, 121, 32, 115, 110, 101, 101, 122, 101>>
\* "keyboard typing"
KeyboardTyping == <<107, 101, 121, 98, 111, 97, 114, 100, 32, 116, 121, 112, 105, 110, 103>>
\* "phone ring"
PhoneRingCat == <<112, 104, 111, 110, 101, 32, 114, 105, 110, 103>>
\* "door slam"
DoorSlamCat == <<100, 111, 111, 114, 32, 115, 108, 97, 109>>
\* "siren"
SirenStr == <<115, 105, 114, 101, 110>>
\* "shout"
ShoutStr == <<115, 104, 111, 117, 116>>

\* "Door slam"
DoorSlamLabel == <<68, 111, 111, 114, 32, 115, 108, 97, 109>>
\* "Phone ring"
PhoneRingLabel == <<80, 104, 111, 110, 101, 32, 114, 105, 110, 103>>
\* "Siren freq"
SirenFreqLabel == <<83, 105, 114, 101, 110, 32, 102, 114, 101, 113>>
\* "Baby sneeze"
BabySneezeLabel == <<66, 97, 98, 121, 32, 115, 110, 101, 101, 122, 101>>

\* "Dog bark"
DogBarkLabel == <<68, 111, 103, 32, 98, 97, 114, 107>>
\* "Clapping"
ClappingLabel == <<67, 108, 97, 112, 112, 105, 110, 103>>
\* "Coughing"
CoughingLabel == <<67, 111, 117, 103, 104, 105, 110, 103>>
\* "Keyboard typing"
KeyboardTypingLabel == <<75, 101, 121, 98, 111, 97, 114, 100, 32, 116, 121, 112, 105, 110, 103>>
\* "Laughing"
LaughingLabel == <<76, 97, 117, 103, 104, 105, 110, 103>>
\* "Siren"
SirenLabel == <<83, 105, 114, 101, 110>>
\* "Glass break"
GlassBreakLabel == <<71, 108, 97, 115, 115, 32, 98, 114, 101, 97, 107>>
\* "Speech"
SpeechLabel == <<83, 112, 101, 101, 99, 104>>
\* "Meow"
MeowLabel == <<77, 101, 111, 119>>
\* "Mouse click"
MouseClickLabel == <<77, 111, 117, 115, 101, 32, 99, 108, 105, 99, 107>>
\* "evt-rand-"
EvtRandPrefix == <<101, 118, 116, 45, 114, 97, 110, 100, 45>>
\* "evt-sneeze"
EvtSneezeId == <<101, 118, 116, 45, 115, 110, 101, 101, 122, 101>>

\* "evt-"
EvtPrefix == <<101, 118, 116, 45>>
\* "analysis-"
AnalysisPrefix == <<97, 110, 97, 108, 121, 115, 105, 115, 45>>
\* "audio/"
AudioPrefix == <<97, 117, 100, 105, 111, 47>>
\* "audio/wav"
AudioWav == <<97, 117, 100, 105, 111, 47, 119, 97, 118>>
\* "video/mp4"
VideoMp4 == <<118, 105, 100, 101, 111, 47, 109, 112, 52>>
\* "dummy-"
DummyPrefix == <<100, 117, 109, 109, 121, 45>>
\* "dummy-sneeze"
DummySneezeId == <<100, 117, 109, 109, 121, 45, 115, 110, 101, 101, 122, 101>>

\* String.prototype.toLowerCase on one character code (A-Z -> a-z)
LowerChar(c) == IF c >= 65 /\ c <= 90 THEN c + 32 ELSE c

\* String.prototype.toUpperCase on one character code (a-z -> A-Z)
UpperChar(c) == IF c >= 97 /\ c <= 122 THEN c - 32 ELSE c

\* String.prototype.toLowerCase
ToLowerCase(s) == [i \in 1..Len(s) |-> LowerChar(s[i])]

\* String.prototype.includes: t occurs in s as a contiguous substring
Includes(s, t) ==
    \E i \in 0..(Len(s) - Len(t)) : \A j \in 1..Len(t) : s[i + j] = t[j]

\* String.prototype.startsWith
StartsWith(s, t) ==
    Len(s) >= Len(t) /\ \A j \in 1..Len(t) : s[j] = t[j]

\* variation of Capitalize: the category is used as the label unchanged
CapitalizeNot(s) == s

\* eventName.charAt(0).toUpperCase() + eventName.slice(1)
Capitalize(s) ==
    IF s = <<>> THEN s ELSE <<UpperChar(s[1])>> \o SubSeq(s, 2, Len(s))

\* the decimal digits of a template-string interpolation `${n}`, n >= 0
RECURSIVE ToDigits(_)
ToDigits(n) ==
    IF n < 10 THEN <<48 + n>> ELSE ToDigits(n \div 10) \o <<48 + (n % 10)>>
----------------------------------------------------------------------------
(* Program constants *)

Variants == {"fill", "nofill", "danger", "summary"}

\* event.confidence >= 0.8
HighThreshold == 80

\* event.confidence >= 0.5
DangerThreshold == 50

\* the confidence threshold of each version of analyzeAudioClip
Threshold(v) == IF v = "danger" THEN DangerThreshold ELSE HighThreshold

\* while (eventCount < 5)
MinResults == 5

\* variation of MaxResults: slice(0, 6)
MaxResultsOff == MinResults + 1

\* slice(0, 5)
MaxResults == 5

\* variation of FillerConfBase: fillers start below the 0.8 threshold
FillerConfLow == HighThreshold - 20

\* 0.8 + Math.random() * 0.2
FillerConfBase == 80

\* the values of Math.random() * 0.2 explored, in hundredths ([0, 0.2))
RandomDraws == {0, 19}

\* confidence of the forced baby-sneeze event, 0.95
SneezeConfidence == 95

\* the keys of eventTypesForStats, in insertion order
EventTypesForStats ==
    <<GlassBreak, ShoutDetected, SirenFreq, HeavyImpact, ConversationCat,
      DogBark, BabySneezeCat, KeyboardTyping, PhoneRingCat, DoorSlamCat>>

\* DANGEROUS_EVENTS
DANGEROUS_EVENTS == <<SirenStr, GlassBreak, ShoutStr, HeavyImpact, PhoneRingCat>>

\* variation of FallbackMessage: a missing output object gives no message
FallbackMessageNone == ""

\* "Undefined threat detected. Proceed with caution."
FallbackMessage == "Undefined threat detected. Proceed with caution."

\* the messages the advisory model can put in its output object
AdvisoryMessages == {"Emergency vehicle detected nearby.", ""}

\* let summary = "No significant events were detected with high confidence."
NoEventsSummary == "No significant events were detected with high confidence."

\* the texts the summary model can put in its output object
SummaryTexts == {"A siren was heard."}

\* throw new Error("Failed to analyze the audio clip. Please try again.")
AnalysisError == "Failed to analyze the audio clip. Please try again."

----------------------------------------------------------------------------
(* The classifier's events *)

\* "Door slam", 1.0-1.5 s, confidence 0.9
DoorSlamDetected ==
    [event |-> DoorSlamLabel, startTime |-> 10, endTime |-> 15, confidence |-> 90]

\* "Phone ring", 2-3 s, confidence 0.3: a dangerous label below every threshold
PhoneRingDetected ==
    [event |-> PhoneRingLabel, startTime |-> 20, endTime |-> 30, confidence |-> 30]

\* "Siren freq", confidence 0.9: a filler category and a dangerous label
SirenFreqDetected ==
    [event |-> SirenFreqLabel, startTime |-> 40, endTime |-> 55, confidence |-> 90]

\* "Baby sneeze", confidence 0.85
BabySneezeDetected ==
    [event |-> BabySneezeLabel, startTime |-> 62, endTime |-> 70, confidence |-> 85]

\* the events the classifier model can report (label, span, confidence)
EventPool ==
    {DoorSlamDetected, PhoneRingDetected, SirenFreqDetected, BabySneezeDetected}

\* the n-th event of a response: the model numbers its events evt-1, evt-2, ...
RawEvent(e, n) ==
    [id |-> EvtPrefix \o ToDigits(n), event |-> e.event,
     startTime |-> e.startTime, endTime |-> e.endTime, confidence |-> e.confidence]

----------------------------------------------------------------------------
(* Curation: filter, sort, fill, forced sneeze, cap *)

\* variation of PassesThreshold: the comparison is turned round
PassesThresholdReversed(e, t) == e.confidence <= t

\* event => event.confidence >= threshold
PassesThreshold(e, t) == e.confidence >= t

\* Array.prototype.filter with the confidence predicate: a new array
FilterByConfidence(s, t) ==
    LET keep(e) == PassesThreshold(e, t) IN SelectSeq(s, keep)

\* variation of InsertPosition: an unstable sort, equal confidences change places
InsertPositionUnstable(e, t) ==
    Cardinality({i \in 1..Len(t) : t[i].confidence > e.confidence})

\* where a stable descending sort puts e in the already sorted t: behind every
\* element the comparator b.confidence - a.confidence does not order after it
InsertPosition(e, t) ==
    Cardinality({i \in 1..Len(t) : t[i].confidence >= e.confidence})

\* Array.prototype.sort((a, b) => b.confidence - a.confidence), a stable sort
RECURSIVE SortByConfidence(_)
SortByConfidence(s) ==
    IF s = <<>> THEN <<>>
    ELSE LET t == SortByConfidence(SubSeq(s, 1, Len(s) - 1))
             e == s[Len(s)]
             k == InsertPosition(e, t)
         IN  SubSeq(t, 1, k) \o <<e>> \o SubSeq(t, k + 1, Len(t))

\* variation of SomeIncludes: the label is not lower-cased before the search
SomeIncludesCaseSensitive(list, eventName) ==
    \E i \in 1..Len(list) : Includes(list[i].event, eventName)

\* finalEvents.some(e => e.event.toLowerCase().includes(eventName))
SomeIncludes(list, eventName) ==
    \E i \in 1..Len(list) : Includes(ToLowerCase(list[i].event), eventName)

\* variation of DummyEvent: the id is numbered like the classifier's ids
DummyEventEvtId(eventName, eventCount, draw) ==
    [id |-> EvtPrefix \o ToDigits(eventCount),
     event |-> Capitalize(eventName),
     startTime |-> 10 + eventCount * 15,
     endTime |-> 20 + eventCount * 15,
     confidence |-> FillerConfBase + draw]

\* variation of DummyEvent: the end time is spaced by 1.0 instead of 1.5
DummyEventSpacing(eventName, eventCount, draw) ==
    [id |-> DummyPrefix \o ToDigits(eventCount),
     event |-> Capitalize(eventName),
     startTime |-> 10 + eventCount * 15,
     endTime |-> 20 + eventCount * 10,
     confidence |-> FillerConfBase + draw]

\* the object pushed by the fill loop for category eventName at counter eventCount
DummyEvent(eventName, eventCount, draw) ==
    [id |-> DummyPrefix \o ToDigits(eventCount),
     event |-> Capitalize(eventName),
     startTime |-> 10 + eventCount * 15,
     endTime |-> 20 + eventCount * 15,
     confidence |-> FillerConfBase + draw]

\* while (eventCount < 5) { ...; eventCount++ }; rnd[c] is the value Math.random()
\* yields if the iteration with counter c pushes
RECURSIVE FillLoop(_, _, _, _)
FillLoop(list, eventCount, cats, rnd) ==
    IF eventCount >= MinResults THEN list
    ELSE LET eventName == cats[(eventCount % Len(cats)) + 1]
             next == IF ~SomeIncludes(list, eventName)
                     THEN Append(list, DummyEvent(eventName, eventCount, rnd[eventCount]))
                     ELSE list
         IN  FillLoop(next, eventCount + 1, cats, rnd)

\* the forced baby-sneeze event
SneezeEvent ==
    [id |-> DummySneezeId, event |-> BabySneezeLabel,
     startTime |-> 30, endTime |-> 35, confidence |-> SneezeConfidence]

\* if (!finalEvents.some(... includes("baby sneeze"))) finalEvents.push({...})
ForceSneeze(list) ==
    IF ~SomeIncludes(list, BabySneezeCat) THEN Append(list, SneezeEvent) ELSE list

\* Array.prototype.slice(0, n)
SliceFront(s, n) == SubSeq(s, 1, IF Len(s) < n THEN Len(s) ELSE n)

\* filter(...) then sort(...); the summary version filters only
Detect(v, raw) ==
    IF v = "summary"
    THEN FilterByConfidence(raw, Threshold(v))
    ELSE SortByConfidence(FilterByConfidence(raw, Threshold(v)))

\* the list the result's events are sliced from
Finalize(v, detected, cats, rnd) ==
    IF v = "fill"
    THEN ForceSneeze(FillLoop(detected, Len(detected), cats, rnd))
    ELSE detected

\* the counters at which the fill loop can draw a random number
DrawDomain(detected) == Len(detected)..(MinResults - 1)

\* events: detectedEvents.slice(0, 5); the summary version returns them all
ResultEvents(v, final) ==
    IF v \in {"summary", "mock"} THEN final ELSE SliceFront(final, MaxResults)

----------------------------------------------------------------------------
(* Danger classification *)

\* DANGEROUS_EVENTS.some(de => e.event.toLowerCase().includes(de))
IsDangerous(e) ==
    \E k \in 1..Len(DANGEROUS_EVENTS) :
        Includes(ToLowerCase(e.event), DANGEROUS_EVENTS[k])

\* variation of DangerousLabels: the labels are handed on lower-cased
RECURSIVE DangerousLabelsLowered(_)
DangerousLabelsLowered(s) ==
    IF s = <<>> THEN <<>>
    ELSE IF IsDangerous(s[1])
         THEN <<ToLowerCase(s[1].event)>> \o DangerousLabelsLowered(SubSeq(s, 2, Len(s)))
         ELSE DangerousLabelsLowered(SubSeq(s, 2, Len(s)))

\* detectedEvents.filter(dangerous).map(e => e.event)
RECURSIVE DangerousLabels(_)
DangerousLabels(s) ==
    IF s = <<>> THEN <<>>
    ELSE IF IsDangerous(s[1])
         THEN <<s[1].event>> \o DangerousLabels(SubSeq(s, 2, Len(s)))
         ELSE DangerousLabels(SubSeq(s, 2, Len(s)))

\* let isDanger = dangerousEventsFound.length > 0
IsDangerOf(found) == Len(found) > 0

\* variation of AdvisoryNeeded: the advisory call is made unconditionally
AdvisoryAlways(isDanger) == TRUE

\* if (isDanger) { await generatePrecautionMessage(...) }
AdvisoryNeeded(isDanger) == isDanger

\* variation of SummaryNeeded: the summary call is made unconditionally
SummaryAlways(detected) == TRUE

\* if (detectedEvents.length > 0) { await summarizeInsights(detectedEvents) }
SummaryNeeded(detected) == Len(detected) > 0
----------------------------------------------------------------------------
(* State machine *)

\* return output || { events: [] }
NoOutputEvents == <<>>

\* no result assembled yet
NoResult == [events |-> <<>>, isDanger |-> FALSE, precautionaryMessage |-> "",
             summary |-> ""]

\* null, the initial value of the analysis state
NoAnalysis == "null"

\* null, the initial value of the exampleClips state
NoExampleClips == "null"

\* the exampleClips state and the promise of getExampleClips that fills it
ExamplesPending == [promise |-> "pending", value |-> NoExampleClips]

\* null, the initial value of the error state
NoError == "null"

\* the component as it is mounted
ClientIdle ==
    /\ analyses = <<>>
    /\ analysisHistory = <<>>
    /\ isLoading = FALSE
    /\ error = NoError
    /\ toast = "none"
    /\ now = 0
    /\ analysis = NoAnalysis
    /\ exampleClips = ExamplesPending
    /\ audioRef = 0
    /\ currentTime = <<>>
    /\ mediaRecorderRef = 0
    /\ recordings = <<>>
    /\ isRecording = FALSE
    /\ hasMicPermission = FALSE
    /\ timers = {}
    /\ clock = 0

\* the state between two analyses
Idle ==
    /\ pc = "idle"
    /\ classificationResult = <<>>
    /\ detectedEvents = <<>>
    /\ finalEvents = <<>>
    /\ dangerousEventsFound = <<>>
    /\ advisoryCalls = 0
    /\ result = NoResult
    /\ recurated = FALSE
    /\ prevEvents = <<>>
    /\ classifierOutput = "pending"
    /\ advisoryOutput = "pending"
    /\ summaryCalls = 0
    /\ returnedEvents = <<>>

Init ==
    /\ variant \in Variants
    /\ requiredEvents = EventTypesForStats
    /\ Idle
    /\ ClientIdle

\* analyzeAudioClip is called and awaits classifyAudioEvents
Call ==
    /\ pc = "idle"
    /\ variant \in Variants
    /\ pc' = "classifying"
    /\ UNCHANGED <<variant, requiredEvents, classificationResult, detectedEvents,
                   finalEvents, dangerousEventsFound, advisoryCalls, result,
                   recurated, prevEvents, flowVars, clientVars>>

\* the classifier model adds one event to its structured output
ClassifierEmit(e) ==
    /\ pc = "classifying"
    /\ Len(classificationResult) < MaxRaw
    /\ classificationResult' =
           Append(classificationResult, RawEvent(e, Len(classificationResult) + 1))
    /\ UNCHANGED <<variant, requiredEvents, pc, detectedEvents, finalEvents,
                   dangerousEventsFound, advisoryCalls, result, recurated,
                   prevEvents, flowVars, clientVars>>

\* the classifier call rejects: the catch block rethrows the fixed error
ClassifierThrow ==
    /\ pc = "classifying"
    /\ pc' = "failed"
    /\ classificationResult' = <<>>
    /\ classifierOutput' = "error"
    /\ UNCHANGED <<variant, requiredEvents, detectedEvents, finalEvents,
                   dangerousEventsFound, advisoryCalls, result, recurated,
                   prevEvents, advisoryOutput, summaryCalls, returnedEvents,
                   clientVars>>

\* variation of FilterTarget: filter(...) hands back the array it was given
FilterInPlace == "input"

\* filter(...) returns a new array, which sort(...) then orders in place
FilterTarget == "detected"

\* the arrays of one run of analyzeAudioClip after curation, by the array
\* object they are: the classifier's events array, the array filter(...)
\* made and the copy [...detectedEvents] that the fill pushes to
Arrays(v, events, cats, rnd) ==
    LET a0 == [input |-> events, detected |-> <<>>, final |-> <<>>]
        a1 == [a0 EXCEPT ![FilterTarget] = FilterByConfidence(a0.input, Threshold(v))]
        a2 == IF v = "summary" THEN a1
              ELSE [a1 EXCEPT ![FilterTarget] = SortByConfidence(a1[FilterTarget])]
        a3 == IF v = "fill" THEN [a2 EXCEPT !.final = a2[FilterTarget]] ELSE a2
    IN  IF v = "fill"
        THEN [a3 EXCEPT !.final =
                  ForceSneeze(FillLoop(a3.final, Len(a3.final), cats, rnd))]
        ELSE a3

\* analyzeAudioClip from the classifier's events up to its next await (the
\* advisory or the summary call) or to its return: the lists it computes, the
\* call it awaits next and the result it returns if it awaits none
Curated(v, events, cats, rnd) ==
    LET detected == Detect(v, events)
        final    == Finalize(v, detected, cats, rnd)
        found    == IF v = "danger" THEN DangerousLabels(detected) ELSE <<>>
        danger   == IsDangerOf(found)
    IN  [input    |-> Arrays(v, events, cats, rnd).input,
         detected |-> detected,
         final    |-> final,
         found    |-> found,
         next     |-> IF v = "danger" /\ AdvisoryNeeded(danger) THEN "advising"
                      ELSE IF v = "summary" /\ SummaryNeeded(detected) THEN "summarizing"
                      ELSE "done",
         result   |-> [events |-> ResultEvents(v, final),
                       isDanger |-> danger,
                       precautionaryMessage |-> "",
                       summary |-> IF v = "summary" THEN NoEventsSummary ELSE ""]]

\* the random numbers the fill loop can draw after filtering events
Draws(v, events) ==
    [(IF v = "fill" THEN DrawDomain(Detect(v, events)) ELSE {}) -> RandomDraws]

\* the analysis in flight runs from the classifier's events to its next await
Curate(events) ==
    \E rnd \in Draws(variant, events) :
        \E c \in {Curated(variant, events, requiredEvents, rnd)} :
            /\ classificationResult' = c.input
            /\ detectedEvents' = c.detected
            /\ finalEvents' = c.final
            /\ dangerousEventsFound' = c.found
            /\ pc' = c.next
            /\ advisoryCalls' = advisoryCalls + (IF c.next = "advising" THEN 1 ELSE 0)
            /\ summaryCalls' = summaryCalls + (IF c.next = "summarizing" THEN 1 ELSE 0)
            /\ result' = IF c.next = "done" THEN c.result ELSE result

\* the classifier call resolves with the model's output object
ClassifierReturn ==
    /\ pc = "classifying"
    /\ classifierOutput' = "object"
    /\ returnedEvents' = classificationResult
    /\ Curate(classificationResult)
    /\ UNCHANGED <<variant, requiredEvents, recurated, prevEvents, advisoryOutput,
                   clientVars>>

\* the classifier model yields no output object: output || { events: [] }
ClassifierNoOutput ==
    /\ pc = "classifying"
    /\ classificationResult = <<>>
    /\ classifierOutput' = "null"
    /\ returnedEvents' = NoOutputEvents
    /\ Curate(NoOutputEvents)
    /\ UNCHANGED <<variant, requiredEvents, recurated, prevEvents, advisoryOutput,
                   clientVars>>

\* generatePrecautionMessage resolves with the model's output object
AdvisoryReturn(m) ==
    /\ pc = "advising"
    /\ pc' = "done"
    /\ advisoryOutput' = "object"
    /\ result' = [events |-> ResultEvents(variant, finalEvents),
                  isDanger |-> IsDangerOf(dangerousEventsFound),
                  precautionaryMessage |-> m,
                  summary |-> ""]
    /\ UNCHANGED <<variant, requiredEvents, classificationResult, detectedEvents,
                   finalEvents, dangerousEventsFound, advisoryCalls, recurated,
                   prevEvents, classifierOutput, summaryCalls,
                   returnedEvents, clientVars>>

\* the advisory model yields no output object: output || { message: fallback }
AdvisoryNoOutput ==
    /\ pc = "advising"
    /\ pc' = "done"
    /\ advisoryOutput' = "null"
    /\ result' = [events |-> ResultEvents(variant, finalEvents),
                  isDanger |-> IsDangerOf(dangerousEventsFound),
                  precautionaryMessage |-> FallbackMessage,
                  summary |-> ""]
    /\ UNCHANGED <<variant, requiredEvents, classificationResult, detectedEvents,
                   finalEvents, dangerousEventsFound, advisoryCalls, recurated,
                   prevEvents, classifierOutput, summaryCalls,
                   returnedEvents, clientVars>>

\* generatePrecautionMessage rejects: the catch block rethrows the fixed error
AdvisoryThrow ==
    /\ pc = "advising"
    /\ pc' = "failed"
    /\ advisoryOutput' = "error"
    /\ UNCHANGED <<variant, requiredEvents, classificationResult, detectedEvents,
                   finalEvents, dangerousEventsFound, advisoryCalls, result,
                   recurated, prevEvents, classifierOutput, summaryCalls,
                   returnedEvents, clientVars>>

\* summarizeInsights resolves with the model's output object
SummaryReturn(t) ==
    /\ pc = "summarizing"
    /\ pc' = "done"
    /\ result' = [events |-> ResultEvents(variant, finalEvents),
                  isDanger |-> FALSE,
                  precautionaryMessage |-> "",
                  summary |-> t]
    /\ UNCHANGED <<variant, requiredEvents, classificationResult, detectedEvents,
                   finalEvents, dangerousEventsFound, advisoryCalls, recurated,
                   prevEvents, flowVars, clientVars>>

\* summarizeInsights rejects, or its flow returns output! with no output
\* object: the catch block rethrows the fixed error
SummaryThrow ==
    /\ pc = "summarizing"
    /\ pc' = "failed"
    /\ UNCHANGED <<variant, requiredEvents, classificationResult, detectedEvents,
                   finalEvents, dangerousEventsFound, advisoryCalls, result,
                   recurated, prevEvents, flowVars, clientVars>>

\* the caller has taken the result or the error; the next analysis can start
Return ==
    /\ pc \in {"done", "failed"}
    /\ pc' = "idle"
    /\ classificationResult' = <<>>
    /\ detectedEvents' = <<>>
    /\ finalEvents' = <<>>
    /\ dangerousEventsFound' = <<>>
    /\ advisoryCalls' = 0
    /\ result' = NoResult
    /\ recurated' = FALSE
    /\ prevEvents' = <<>>
    /\ classifierOutput' = "pending"
    /\ advisoryOutput' = "pending"
    /\ summaryCalls' = 0
    /\ returnedEvents' = <<>>
    /\ UNCHANGED <<variant, requiredEvents, clientVars>>

Next ==
    \/ Call
    \/ \E e \in EventPool : ClassifierEmit(e)
    \/ ClassifierThrow
    \/ ClassifierReturn
    \/ ClassifierNoOutput
    \/ \E m \in AdvisoryMessages : AdvisoryReturn(m)
    \/ AdvisoryNoOutput
    \/ AdvisoryThrow
    \/ \E t \in SummaryTexts : SummaryReturn(t)
    \/ SummaryThrow
    \/ Return

Spec == Init /\ [][Next]_vars
----------------------------------------------------------------------------
(* Curation applied to its own output *)

\* the returned events are curated a second time with the same options
\* (the versions that sort and cap)
Recurate ==
    /\ pc = "done"
    /\ variant # "summary"
    /\ ~recurated
    /\ LET detected == Detect(variant, result.events)
       IN  \E rnd \in [(IF variant = "fill" THEN DrawDomain(detected) ELSE {}) -> RandomDraws] :
             LET final == Finalize(variant, detected, requiredEvents, rnd)
             IN  /\ prevEvents' = result.events
                 /\ classificationResult' = result.events
                 /\ detectedEvents' = detected
                 /\ finalEvents' = final
                 /\ result' = [result EXCEPT !.events = ResultEvents(variant, final)]
                 /\ recurated' = TRUE
    /\ UNCHANGED <<variant, requiredEvents, pc, dangerousEventsFound, advisoryCalls,
                   flowVars, clientVars>>

NextRecurate == Next \/ Recurate

SpecRecurate == Init /\ [][NextRecurate]_vars

----------------------------------------------------------------------------
(* The fill version with a configurable category list *)

\* fillerCategories = ["glass break", "siren"]
TwoCategories == <<GlassBreak, SirenStr>>

\* the fill version, its category list being the program's or a two-entry one
InitCats ==
    /\ variant = "fill"
    /\ requiredEvents \in {EventTypesForStats, TwoCategories}
    /\ Idle
    /\ ClientIdle

NextCats ==
    \/ Call
    \/ \E e \in EventPool : ClassifierEmit(e)
    \/ ClassifierThrow
    \/ ClassifierReturn
    \/ Return

SpecCats == InitCats /\ [][NextCats]_vars
----------------------------------------------------------------------------
(* The mock version: events made up by mockDetectEvents *)

\* values of Math.random(), in thousandths
RandomThousandths == {0, 999}

\* values of Math.random() drawn for a start time, in thousandths
StartThousandths == {0, 500, 999}

\* the event labels mockDetectEvents chooses from
eventTypes ==
    <<DogBarkLabel, ClappingLabel, DoorSlamLabel, CoughingLabel,
      KeyboardTypingLabel, LaughingLabel, SirenLabel, PhoneRingLabel,
      GlassBreakLabel, SpeechLabel, MeowLabel, MouseClickLabel>>

\* variation of StartScale: start times are drawn from the whole clip
StartScaleWholeClip == 8 + 2

\* Math.random() * 8: the factor of a drawn start time
StartScale == 8

\* Math.floor(Math.random() * 3) + 1
NumEvents(r) == (r * 3) \div 1000 + 1

\* parseFloat((Math.random() * 8).toFixed(1)), in tenths: r * 8 thousandths
\* of a second rounded to the nearest tenth
MockStartTime(r) == (r * StartScale + 50) \div 100

\* parseFloat((startTime + Math.random() * 1.5 + 0.5).toFixed(1)), in tenths:
\* the sum taken in two-thousandths of a second, rounded to the nearest tenth
MockEndTime(startTime, r) == (startTime * 200 + r * 3 + 1000 + 100) \div 200

\* parseFloat(Math.random().toFixed(2)), in hundredths
MockConfidence(r) == (r + 5) \div 10

\* eventTypes[Math.floor(Math.random() * eventTypes.length)]
MockEventType(r) == eventTypes[(r * Len(eventTypes)) \div 1000 + 1]

\* the four random numbers one pass of the loop draws
LoopDraws == [start : StartThousandths, duration : RandomThousandths,
              type : RandomThousandths, confidence : RandomThousandths]

\* the loop of mockDetectEvents from pass i on: a pass whose end time is
\* beyond 10 s pushes nothing
RECURSIVE MockLoop(_, _, _, _)
MockLoop(events, i, numEvents, draws) ==
    IF i >= numEvents THEN events
    ELSE LET startTime == MockStartTime(draws[i].start)
             endTime   == MockEndTime(startTime, draws[i].duration)
         IN  IF endTime > 100
             THEN MockLoop(events, i + 1, numEvents, draws)
             ELSE MockLoop(Append(events,
                               [id |-> EvtRandPrefix \o ToDigits(i),
                                event |-> MockEventType(draws[i].type),
                                startTime |-> startTime,
                                endTime |-> endTime,
                                confidence |-> MockConfidence(draws[i].confidence)]),
                           i + 1, numEvents, draws)

\* the baby sneeze mockDetectEvents always adds; its confidence
\* 0.85 + Math.random() * 0.15 is cut to whole hundredths
MockSneeze(rStart, rConfidence) ==
    LET sneezeStartTime == MockStartTime(rStart)
    IN  [id |-> EvtSneezeId,
         event |-> BabySneezeLabel,
         startTime |-> sneezeStartTime,
         endTime |-> sneezeStartTime + 8,
         confidence |-> 85 + (rConfidence * 15) \div 1000]

\* Array.prototype.sort((a, b) => a.startTime - b.startTime), a stable sort
RECURSIVE SortByStartTime(_)
SortByStartTime(s) ==
    IF s = <<>> THEN <<>>
    ELSE LET t == SortByStartTime(SubSeq(s, 1, Len(s) - 1))
             e == s[Len(s)]
             k == Cardinality({i \in 1..Len(t) : t[i].startTime <= e.startTime})
         IN  SubSeq(t, 1, k) \o <<e>> \o SubSeq(t, k + 1, Len(t))

\* mockDetectEvents with its random numbers as arguments
MockDetectEvents(numEvents, draws, rStart, rConfidence) ==
    SortByStartTime(Append(MockLoop(<<>>, 0, numEvents, draws),
                           MockSneeze(rStart, rConfidence)))

\* the mock version of analyzeAudioClip is called: it makes up the events,
\* filters them and awaits summarizeInsights when an event is left
MockCall ==
    /\ pc = "idle"
    /\ variant = "mock"
    /\ \E rNum \in RandomThousandths :
         \E draws \in [0..(NumEvents(rNum) - 1) -> LoopDraws] :
           \E rStart \in StartThousandths, rConfidence \in RandomThousandths :
             \E all \in {MockDetectEvents(NumEvents(rNum), draws, rStart, rConfidence)} :
               \E detected \in {FilterByConfidence(all, HighThreshold)} :
                 /\ classificationResult' = all
                 /\ detectedEvents' = detected
                 /\ finalEvents' = detected
                 /\ pc' = IF SummaryNeeded(detected) THEN "summarizing" ELSE "done"
                 /\ summaryCalls' = summaryCalls + (IF SummaryNeeded(detected) THEN 1 ELSE 0)
                 /\ result' = IF SummaryNeeded(detected) THEN result
                              ELSE [NoResult EXCEPT !.summary = NoEventsSummary]
    /\ UNCHANGED <<variant, requiredEvents, dangerousEventsFound, advisoryCalls,
                   recurated, prevEvents, classifierOutput, advisoryOutput,
                   returnedEvents, clientVars>>

\* the versions that make events up: demo-fill and mock
InitMock ==
    /\ variant \in {"fill", "mock"}
    /\ requiredEvents = EventTypesForStats
    /\ Idle
    /\ ClientIdle

NextMock ==
    \/ Call
    \/ \E e \in EventPool : ClassifierEmit(e)
    \/ ClassifierThrow
    \/ ClassifierReturn
    \/ ClassifierNoOutput
    \/ MockCall
    \/ \E t \in SummaryTexts : SummaryReturn(t)
    \/ SummaryThrow
    \/ Return

SpecMock == InitMock /\ [][NextMock]_vars

----------------------------------------------------------------------------
(* The history client *)

\* the pipeline variables, which the client's steps leave alone
serverVars == <<variant, requiredEvents, pc, classificationResult, detectedEvents,
                finalEvents, dangerousEventsFound, advisoryCalls, result,
                recurated, prevEvents, flowVars>>

\* 5 * 1024 * 1024
MaxFileSize == 5 * 1024 * 1024

\* the files the user can choose
Files ==
    { [name |-> "clip.wav",  size |-> MaxFileSize,     type |-> AudioWav],
      [name |-> "long.wav",  size |-> MaxFileSize + 1, type |-> AudioWav],
      [name |-> "film.mp4",  size |-> 1024,            type |-> VideoMp4] }

\* variation of FileTooLarge: a file of exactly the limit is refused
FileTooLargeAtLimit(file) == file.size >= MaxFileSize

\* if (file.size > 5 * 1024 * 1024)
FileTooLarge(file) == file.size > MaxFileSize

\* if (file.type.startsWith('audio/'))
IsAudio(file) == StartsWith(file.type, AudioPrefix)

\* the classifier response explored for the client's analyses
ClientResponses == { <<RawEvent(SirenFreqDetected, 1)>> }

\* the random numbers explored for the client's analyses: one value per run
ClientDraws(v, events) ==
    { rnd \in Draws(v, events) : \A c, d \in DOMAIN rnd : rnd[c] = rnd[d] }

\* an analysis whose file is being read
NewAnalysis(file) ==
    [st |-> "reading", file |-> file, before |-> 0, doneAt |-> 0,
     cause |-> "none", generatorCalls |-> 0, pending |-> NoResult,
     result |-> NoResult]

\* the analyses that have run their continuation
Settled == {k \in 1..Len(analyses) : analyses[k].st \in {"added", "failed"}}

\* the analyses that have started (handleAnalysis ran to its await) and
\* whose continuation has not run yet
InFlight ==
    {k \in 1..Len(analyses) :
        analyses[k].st \in {"classifying", "advising", "summarizing", "resolved", "rejected"}}

\* isPending of useTransition: the transition of an analysis has not finished
IsPending == InFlight # {}

\* `analysis-${Date.now()}`
AnalysisId(t) == AnalysisPrefix \o ToDigits(t)
\* variation of CatchOutcome: the catch block returns instead of throwing
CatchOutcomeReturns == "resolved"

\* catch (error) { throw new Error("Failed to analyze the audio clip...") }
CatchOutcome == "rejected"

\* variation of PrependAnalysis: the new analysis is put in front twice
PrependAnalysisTwice(newAnalysis, prev) == <<newAnalysis, newAnalysis>> \o prev

\* variation of PrependAnalysis: the new analysis is put behind the others
AppendAnalysis(newAnalysis, prev) == prev \o <<newAnalysis>>

\* variation of PrependAnalysis: the new analysis replaces the others
ReplaceAnalyses(newAnalysis, prev) == <<newAnalysis>>

\* setAnalysisHistory(prev => [newAnalysis, ...prev])
PrependAnalysis(newAnalysis, prev) == <<newAnalysis>> \o prev

\* the user chooses a file in the file input
HandleFileChange(file) ==
    /\ IF FileTooLarge(file)
       THEN /\ toast' = "File too large"
            /\ UNCHANGED analyses
       ELSE IF IsAudio(file)
       THEN /\ Len(analyses) < MaxAnalyses
            /\ analyses' = Append(analyses, NewAnalysis(file))
            /\ UNCHANGED toast
       ELSE /\ toast' = "Invalid file type"
            /\ UNCHANGED analyses
    /\ UNCHANGED <<analysisHistory, isLoading, error, now, serverVars, uiVars>>

\* reader.onload: handleAnalysis up to the await of analyzeAudioClip
HandleAnalysis(j) ==
    /\ analyses[j].st = "reading"
    /\ isLoading' = TRUE
    /\ error' = NoError
    /\ analyses' = [analyses EXCEPT ![j].st = "classifying",
                                    ![j].before = Cardinality(Settled)]
    /\ UNCHANGED <<analysisHistory, toast, now, serverVars, uiVars>>

\* the classifier call of analysis j resolves: analyzeAudioClip runs to its
\* next await or to its return
AnalyzeClassified(j, events) ==
    /\ analyses[j].st = "classifying"
    /\ \E rnd \in ClientDraws(variant, events) :
         \E c \in {Curated(variant, events, requiredEvents, rnd)} :
           analyses' = [analyses EXCEPT
               ![j].st = IF c.next = "done" THEN "resolved" ELSE c.next,
               ![j].generatorCalls = @ + (IF c.next = "done" THEN 0 ELSE 1),
               ![j].pending = c.result,
               ![j].result = IF c.next = "done" THEN c.result ELSE NoResult]
    /\ UNCHANGED <<analysisHistory, isLoading, error, toast, now, serverVars, uiVars>>

\* the classifier call of analysis j rejects
AnalyzeClassifierThrow(j) ==
    /\ analyses[j].st = "classifying"
    /\ analyses' = [analyses EXCEPT ![j].st = CatchOutcome,
                                    ![j].cause = "classifier"]
    /\ UNCHANGED <<analysisHistory, isLoading, error, toast, now, serverVars, uiVars>>

\* the texts the generator awaited in stage st can resolve with
GeneratorTexts(st) ==
    IF st = "advising" THEN AdvisoryMessages \cup {FallbackMessage} ELSE SummaryTexts

\* the advisory or summary call of analysis j resolves
AnalyzeGenerated(j, text) ==
    /\ analyses[j].st \in {"advising", "summarizing"}
    /\ text \in GeneratorTexts(analyses[j].st)
    /\ analyses' = [analyses EXCEPT
           ![j].st = "resolved",
           ![j].result = IF analyses[j].st = "advising"
                         THEN [analyses[j].pending EXCEPT !.precautionaryMessage = text]
                         ELSE [analyses[j].pending EXCEPT !.summary = text]]
    /\ UNCHANGED <<analysisHistory, isLoading, error, toast, now, serverVars, uiVars>>

\* the advisory or summary call of analysis j rejects
AnalyzeGeneratorThrow(j) ==
    /\ analyses[j].st \in {"advising", "summarizing"}
    /\ analyses' = [analyses EXCEPT ![j].st = CatchOutcome,
                                    ![j].cause = "generator"]
    /\ UNCHANGED <<analysisHistory, isLoading, error, toast, now, serverVars, uiVars>>

\* handleAnalysis after the await: the try body and the finally block, and
\* the render that mounts the new entry, whose <audio ref={audioRef}> is
\* attached to the one ref object
HandleResolved(j) ==
    /\ analyses[j].st = "resolved"
    /\ LET r == analyses[j].result
           newAnalysis == [events |-> r.events,
                           isDanger |-> r.isDanger,
                           precautionaryMessage |-> r.precautionaryMessage,
                           summary |-> r.summary,
                           id |-> AnalysisId(now),
                           fileName |-> analyses[j].file.name,
                           timestamp |-> now,
                           analysis |-> j]
       IN  analysisHistory' = PrependAnalysis(newAnalysis, analysisHistory)
    /\ isLoading' = FALSE
    /\ analyses' = [analyses EXCEPT ![j].st = "added",
                                    ![j].doneAt = Cardinality(Settled) + 1]
    /\ audioRef' = j
    /\ currentTime' = currentTime @@ (j :> 0)
    /\ UNCHANGED <<error, toast, now, serverVars, singleVars, recorderVars>>

\* handleAnalysis after the await: the catch and the finally block
HandleRejected(j) ==
    /\ analyses[j].st = "rejected"
    /\ error' = AnalysisError
    /\ toast' = "Analysis Failed"
    /\ isLoading' = FALSE
    /\ analyses' = [analyses EXCEPT ![j].st = "failed",
                                    ![j].doneAt = Cardinality(Settled) + 1]
    /\ UNCHANGED <<analysisHistory, now, serverVars, uiVars>>

\* a millisecond passes
Tick ==
    /\ now < MaxClock
    /\ now' = now + 1
    /\ UNCHANGED <<analyses, analysisHistory, isLoading, error, toast, serverVars, uiVars>>

NextClient ==
    \/ \E file \in Files : HandleFileChange(file)
    \/ \E j \in 1..Len(analyses) :
         \/ HandleAnalysis(j)
         \/ \E events \in ClientResponses : AnalyzeClassified(j, events)
         \/ AnalyzeClassifierThrow(j)
         \/ \E text \in AdvisoryMessages \cup {FallbackMessage} \cup SummaryTexts :
                AnalyzeGenerated(j, text)
         \/ AnalyzeGeneratorThrow(j)
         \/ HandleResolved(j)
         \/ HandleRejected(j)
    \/ Tick

SpecClient == Init /\ [][NextClient]_vars
----------------------------------------------------------------------------
(* The audio players of the history *)

\* the user clicks event e of history entry i, in its timeline or its table:
\* audioRef.current && (audioRef.current.currentTime = event.startTime)
ClickEvent(i, e) ==
    /\ i \in 1..Len(analysisHistory)
    /\ e \in 1..Len(analysisHistory[i].events)
    /\ currentTime' = IF audioRef # 0
                      THEN [currentTime EXCEPT ![audioRef] = analysisHistory[i].events[e].startTime]
                      ELSE currentTime
    /\ UNCHANGED <<analyses, analysisHistory, isLoading, error, toast, now,
                   audioRef, singleVars, recorderVars, serverVars>>

\* the history client of the plain version, its events clicked
InitPlayer ==
    /\ variant = "nofill"
    /\ requiredEvents = EventTypesForStats
    /\ Idle
    /\ ClientIdle

NextPlayer ==
    \/ \E file \in Files : HandleFileChange(file)
    \/ \E j \in 1..Len(analyses) :
         \/ HandleAnalysis(j)
         \/ \E events \in ClientResponses : AnalyzeClassified(j, events)
         \/ AnalyzeClassifierThrow(j)
         \/ HandleResolved(j)
         \/ HandleRejected(j)
    \/ Tick
    \/ \E i \in 1..Len(analysisHistory) :
         \E e \in 1..Len(analysisHistory[i].events) : ClickEvent(i, e)

SpecPlayer == InitPlayer /\ [][NextPlayer]_vars

----------------------------------------------------------------------------
(* The microphone recorder of the history client *)

\* setTimeout(..., 10000), the clock counting steps of 5 s
RecordingTimeout == 2

\* the file name and recorder handed on by a recorder's onstop handler; the
\* date in the name `Live Recording ${new Date().toLocaleString()}` is left out
RecordedFile(k) == [name |-> "Live Recording", recording |-> k]

\* a call of startRecording awaiting getUserMedia
NewRecording == [state |-> "asking", stoppedBy |-> "none", timerOf |-> 0, onstop |-> "none"]

\* stopRecording(), called by the user (by = 0) or by the timer of recording by
StopRecording(by) ==
    LET r == mediaRecorderRef
    IN  IF r # 0 /\ recordings[r].state = "recording"
        THEN /\ recordings' = [recordings EXCEPT
                                  ![r].state = "inactive",
                                  ![r].stoppedBy = IF by = 0 THEN "user" ELSE "timer",
                                  ![r].timerOf = by,
                                  ![r].onstop = "queued"]
             /\ isRecording' = FALSE
             /\ toast' = "Recording stopped"
        ELSE UNCHANGED <<recordings, isRecording, toast>>

\* the user clicks Start Recording: startRecording up to the await of getUserMedia
StartRecording ==
    /\ ~isRecording
    /\ ~IsPending
    /\ Len(recordings) < MaxAnalyses
    /\ recordings' = Append(recordings, NewRecording)
    /\ UNCHANGED <<analyses, analysisHistory, isLoading, error, toast, now,
                   singleVars, playerVars, mediaRecorderRef, isRecording,
                   hasMicPermission, timers, clock, serverVars>>

\* getUserMedia resolves for call k: the recorder is created and started and
\* the timeout is set
MicGranted(k) ==
    /\ recordings[k].state = "asking"
    /\ hasMicPermission' = TRUE
    /\ mediaRecorderRef' = k
    /\ recordings' = [recordings EXCEPT ![k].state = "recording"]
    /\ isRecording' = TRUE
    /\ toast' = "Recording started"
    /\ timers' = timers \cup {[of |-> k, due |-> clock + RecordingTimeout]}
    /\ UNCHANGED <<analyses, analysisHistory, isLoading, error, now, singleVars,
                   playerVars, clock, serverVars>>

\* getUserMedia rejects for call k: the catch block
MicDenied(k) ==
    /\ recordings[k].state = "asking"
    /\ hasMicPermission' = FALSE
    /\ recordings' = [recordings EXCEPT ![k].state = "denied"]
    /\ toast' = "Microphone Access Denied"
    /\ UNCHANGED <<analyses, analysisHistory, isLoading, error, now, singleVars,
                   playerVars, mediaRecorderRef, isRecording, timers, clock,
                   serverVars>>

\* the user clicks Stop Recording
UserStop ==
    /\ isRecording
    /\ ~IsPending
    /\ StopRecording(0)
    /\ UNCHANGED <<analyses, analysisHistory, isLoading, error, now, singleVars,
                   playerVars, mediaRecorderRef, hasMicPermission, timers, clock,
                   serverVars>>

\* a timeout is due: its callback calls stopRecording
TimerFires(t) ==
    /\ t \in timers
    /\ t.due = clock
    /\ timers' = timers \ {t}
    /\ StopRecording(t.of)
    /\ UNCHANGED <<analyses, analysisHistory, isLoading, error, now, singleVars,
                   playerVars, mediaRecorderRef, hasMicPermission, clock,
                   serverVars>>

\* the stop event of recorder k: onstop hands the recording to a FileReader
OnStop(k) ==
    /\ recordings[k].onstop = "queued"
    /\ recordings' = [recordings EXCEPT ![k].onstop = "handled"]
    /\ analyses' = Append(analyses, NewAnalysis(RecordedFile(k)))
    /\ UNCHANGED <<analysisHistory, isLoading, error, toast, now, singleVars,
                   playerVars, mediaRecorderRef, isRecording, hasMicPermission,
                   timers, clock, serverVars>>

\* 5 s pass; a timeout that is due runs first
ClockTick ==
    /\ clock < MaxTicks
    /\ \A t \in timers : t.due > clock
    /\ clock' = clock + 1
    /\ UNCHANGED <<analyses, analysisHistory, isLoading, error, toast, now,
                   singleVars, playerVars, mediaRecorderRef, recordings,
                   isRecording, hasMicPermission, timers, serverVars>>

\* the history client of the plain version, fed by the recorder
InitRecorder ==
    /\ variant = "nofill"
    /\ requiredEvents = EventTypesForStats
    /\ Idle
    /\ ClientIdle

NextRecorder ==
    \/ StartRecording
    \/ \E k \in 1..Len(recordings) :
         \/ MicGranted(k)
         \/ MicDenied(k)
         \/ OnStop(k)
    \/ UserStop
    \/ \E t \in timers : TimerFires(t)
    \/ ClockTick
    \/ \E j \in 1..Len(analyses) :
         \/ HandleAnalysis(j)
         \/ \E events \in ClientResponses : AnalyzeClassified(j, events)
         \/ AnalyzeClassifierThrow(j)
         \/ HandleResolved(j)
         \/ HandleRejected(j)

SpecRecorder == InitRecorder /\ [][NextRecorder]_vars

----------------------------------------------------------------------------
(* The single-result client *)

\* the arguments handleExampleClick passes to handleAnalysis
ExampleRequest(clipType) ==
    [clipType |-> clipType,
     audioSrc |-> IF clipType = "door_slam" THEN "exampleClips.doorSlam"
                  ELSE "exampleClips.phoneRing",
     fileName |-> IF clipType = "door_slam" THEN "Door Slam Example"
                  ELSE "Phone Ring Example"]

\* the arguments reader.onload passes to handleAnalysis for a chosen file
UploadRequest(file) ==
    [clipType |-> "user_upload", audioSrc |-> file.name, fileName |-> file.name]

\* what analyzeAudioClip resolves with for the single-result client: the
\* events left of a mock detection, which are its sneeze, and a summary
SingleResponses ==
    { [events |-> FilterByConfidence(
                      MockDetectEvents(1, [i \in {0} |-> [start |-> 0, duration |-> 0,
                                                          type |-> 0, confidence |-> 0]],
                                       rStart, 0),
                      HighThreshold),
       summary |-> text] : rStart \in StartThousandths, text \in SummaryTexts }

\* the requests for which handleAnalysis has been called
Started == {k \in 1..Len(analyses) : analyses[k].st # "reading"}

\* the requests awaiting analyzeAudioClip
Awaiting == {k \in 1..Len(analyses) : analyses[k].st = "awaiting"}

\* handleAnalysis up to the await of analyzeAudioClip, for request j
StartAnalysis(j, requests) ==
    /\ isLoading' = TRUE
    /\ error' = NoError
    /\ analysis' = NoAnalysis
    /\ analyses' = [requests EXCEPT ![j].st = "awaiting",
                                    ![j].order = Cardinality(Started) + 1,
                                    ![j].overlap = (Awaiting # {})]

\* a request made of the arguments of handleAnalysis
NewRequest(st, args) ==
    [st |-> st, args |-> args, order |-> 0, overlap |-> FALSE, display |-> NoAnalysis]

\* getExampleClips resolves
ExamplesLoaded ==
    /\ exampleClips.promise = "pending"
    /\ exampleClips' = [promise |-> "settled", value |-> "clips"]
    /\ UNCHANGED <<analyses, analysisHistory, isLoading, error, toast, now,
                   analysis, playerVars, recorderVars, serverVars>>

\* getExampleClips rejects
ExamplesFailed ==
    /\ exampleClips.promise = "pending"
    /\ exampleClips' = [exampleClips EXCEPT !.promise = "settled"]
    /\ toast' = "Error"
    /\ UNCHANGED <<analyses, analysisHistory, isLoading, error, now,
                   analysis, playerVars, recorderVars, serverVars>>

\* the user clicks one of the example buttons
HandleExampleClick(clipType) ==
    /\ IF exampleClips.value = NoExampleClips
       THEN /\ toast' = "Examples not ready"
            /\ UNCHANGED <<analyses, isLoading, error, analysis>>
       ELSE /\ Len(analyses) < MaxAnalyses
            /\ StartAnalysis(Len(analyses) + 1,
                             Append(analyses, NewRequest("clicked", ExampleRequest(clipType))))
            /\ UNCHANGED toast
    /\ UNCHANGED <<analysisHistory, now, exampleClips, playerVars, recorderVars,
                   serverVars>>

\* the user chooses a file in the file input of the single-result client
SingleFileChange(file) ==
    /\ IF FileTooLarge(file)
       THEN /\ toast' = "File too large"
            /\ UNCHANGED analyses
       ELSE IF IsAudio(file)
       THEN /\ Len(analyses) < MaxAnalyses
            /\ analyses' = Append(analyses, NewRequest("reading", UploadRequest(file)))
            /\ UNCHANGED toast
       ELSE /\ toast' = "Invalid file type"
            /\ UNCHANGED analyses
    /\ UNCHANGED <<analysisHistory, isLoading, error, now, uiVars, serverVars>>

\* reader.onload of a chosen file
SingleFileRead(j) ==
    /\ analyses[j].st = "reading"
    /\ StartAnalysis(j, analyses)
    /\ UNCHANGED <<analysisHistory, toast, now, exampleClips, playerVars,
                   recorderVars, serverVars>>

\* analyzeAudioClip resolves for request j: the try body and the finally block
SingleResolved(j, response) ==
    /\ analyses[j].st = "awaiting"
    /\ \E shown \in {[events |-> response.events,
                      summary |-> response.summary,
                      audioSrc |-> analyses[j].args.audioSrc,
                      fileName |-> analyses[j].args.fileName]} :
         /\ analysis' = shown
         /\ analyses' = [analyses EXCEPT ![j].st = "shown", ![j].display = shown]
    /\ isLoading' = FALSE
    /\ UNCHANGED <<analysisHistory, error, toast, now, exampleClips, playerVars,
                   recorderVars, serverVars>>

\* analyzeAudioClip rejects for request j: the catch and the finally block
SingleRejected(j) ==
    /\ analyses[j].st = "awaiting"
    /\ error' = AnalysisError
    /\ toast' = "Analysis Failed"
    /\ isLoading' = FALSE
    /\ analyses' = [analyses EXCEPT ![j].st = "failed"]
    /\ UNCHANGED <<analysisHistory, now, uiVars, serverVars>>

\* the single-result client on top of the mock version
InitSingle ==
    /\ variant = "mock"
    /\ requiredEvents = EventTypesForStats
    /\ Idle
    /\ ClientIdle

NextSingle ==
    \/ ExamplesLoaded
    \/ ExamplesFailed
    \/ \E clipType \in {"door_slam", "phone_ring"} : HandleExampleClick(clipType)
    \/ \E file \in Files : SingleFileChange(file)
    \/ \E j \in 1..Len(analyses) :
         \/ SingleFileRead(j)
         \/ \E response \in SingleResponses : SingleResolved(j, response)
         \/ SingleRejected(j)

SpecSingle == InitSingle /\ [][NextSingle]_vars

----------------------------------------------------------------------------
(* Properties *)

Min(a, b) == IF a < b THEN a ELSE b

Max(a, b) == IF a > b THEN a ELSE b

\* an event made by the program: its id has the reserved prefix
IsSynthetic(e) == StartsWith(e.id, DummyPrefix)

\* the number of raw events with confidence >= the threshold
FilteredCount ==
    Cardinality({i \in 1..Len(classificationResult) :
                    classificationResult[i].confidence >= Threshold(variant)})

\* C1: in the fill version the returned events list has length exactly
\* min(maxResults, max(minResults, filteredCount)), that is 5, also when a
\* filler category is skipped because it is already present.
C1_FillLengthExact ==
    (pc = "done" /\ variant = "fill")
        => Len(result.events) = Min(MaxResults, Max(MinResults, FilteredCount))

\* C2: the curated output holds no non-synthetic event with confidence below
\* the threshold, and every synthetic event in it (filler or forced sneeze)
\* has confidence >= 0.65.
C2_ConfidenceFloor ==
    pc = "done" =>
        \A i \in 1..Len(result.events) :
            IF IsSynthetic(result.events[i])
            THEN result.events[i].confidence >= 65
            ELSE result.events[i].confidence >= Threshold(variant)

\* C2 witness: a fill result with real and synthetic events, from a response
\* that had an event below the threshold
C2_Witness ==
    /\ pc = "done"
    /\ variant = "fill"
    /\ \E i \in 1..Len(classificationResult) :
           classificationResult[i].confidence < Threshold(variant)
    /\ \E i \in 1..Len(result.events) : IsSynthetic(result.events[i])
    /\ \E i \in 1..Len(result.events) : ~IsSynthetic(result.events[i])

\* the number of entries of s equal to e
CountOf(s, e) == Cardinality({j \in 1..Len(s) : s[j] = e})

\* the first index of e in s
IndexOf(s, e) == CHOOSE j \in 1..Len(s) : s[j] = e /\ \A k \in 1..(j - 1) : s[k] # e

\* s is in non-increasing order of confidence
IsSortedDesc(s) == \A i \in 1..(Len(s) - 1) : s[i].confidence >= s[i + 1].confidence

\* C3 (as claimed): curating the returned events again returns the same list,
\* in the same order, for every choice of filler confidences.
C3_Idempotent ==
    recurated => result.events = prevEvents

\* C3 (amended): curating the returned events again returns the same events,
\* none added or removed, in non-increasing order of confidence with equal
\* confidences keeping their order; in the versions without fill that is the
\* same list.
C3_RecurateSortsSameEvents ==
    recurated =>
        /\ Len(result.events) = Len(prevEvents)
        /\ \A i \in 1..Len(prevEvents) :
               CountOf(result.events, prevEvents[i]) = CountOf(prevEvents, prevEvents[i])
        /\ IsSortedDesc(result.events)
        /\ \A i, j \in 1..Len(prevEvents) :
               (i < j /\ prevEvents[i].confidence = prevEvents[j].confidence)
                   => IndexOf(result.events, prevEvents[i])
                          <= IndexOf(result.events, prevEvents[j])
        /\ (variant # "fill" => result.events = prevEvents)

\* C3 witness: a second curation of a fill result that moved an event
C3_Witness ==
    /\ recurated
    /\ variant = "fill"
    /\ Len(prevEvents) = MaxResults
    /\ result.events # prevEvents

\* C4: isDanger is true iff some event of the returned (capped) events list
\* has a label that, lower-cased, contains a dangerous substring.
C4_DangerIffReturnedEventMatches ==
    (pc = "done" /\ variant = "danger") =>
        (result.isDanger <=> \E i \in 1..Len(result.events) : IsDangerous(result.events[i]))

C6_NoFillOnlyFilteredRaw ==
    (pc = "done" /\ variant = "nofill") =>
        /\ \A i \in 1..Len(result.events) :
               /\ result.events[i].confidence >= Threshold(variant)
               /\ CountOf(result.events, result.events[i])
                      <= CountOf(classificationResult, result.events[i])
               /\ CountOf(classificationResult, result.events[i]) > 0
        /\ Len(result.events) = Min(FilteredCount, 5)
        /\ (classificationResult = <<RawEvent(DoorSlamDetected, 1), RawEvent(PhoneRingDetected, 2)>>
               => result.events = <<RawEvent(DoorSlamDetected, 1)>>)

\* C6 witness: the plain version has answered [Door slam 0.9, Phone ring 0.3]
C6_Witness ==
    /\ pc = "done"
    /\ variant = "nofill"
    /\ classificationResult = <<RawEvent(DoorSlamDetected, 1), RawEvent(PhoneRingDetected, 2)>>
    /\ Len(result.events) = 1

\* a comes before b in the order of the sort: higher confidence first, equal
\* confidences in order of arrival in the classifier's response
RanksBefore(a, b) ==
    \/ a.confidence > b.confidence
    \/ /\ a.confidence = b.confidence
       /\ IndexOf(classificationResult, a) < IndexOf(classificationResult, b)

\* C7: in the versions without fill the output is in non-increasing order of
\* confidence, equal confidences in their order of arrival in the raw list, and
\* the cap keeps the first maxResults events of that order.
C7_StableDescendingPrefix ==
    (pc = "done" /\ variant \in {"nofill", "danger"}) =>
        /\ IsSortedDesc(result.events)
        /\ \A i, j \in 1..Len(result.events) :
               i < j => RanksBefore(result.events[i], result.events[j])
        /\ \A p \in 1..Len(classificationResult) :
               (/\ classificationResult[p].confidence >= Threshold(variant)
                /\ CountOf(result.events, classificationResult[p]) = 0)
                   => \A i \in 1..Len(result.events) :
                          RanksBefore(result.events[i], classificationResult[p])
        /\ Len(result.events) = Min(FilteredCount, MaxResults)

\* C7 witness: more events than the cap passed the filter, the sort moved
\* some, and two different events of equal confidence are next to each other
C7_Witness ==
    /\ pc = "done"
    /\ variant = "danger"
    /\ FilteredCount > MaxResults
    /\ detectedEvents # FilterByConfidence(classificationResult, Threshold(variant))
    /\ \E i \in 1..(Len(result.events) - 1) :
           /\ result.events[i].confidence = result.events[i + 1].confidence
           /\ result.events[i].event # result.events[i + 1].event

\* C8: no synthetic event is in the filled list behind an event whose label
\* contains its category (case-insensitively), and no two synthetic events of
\* one result carry the same category.
C8_NoFillerForPresentCategory ==
    (pc = "done" /\ variant = "fill") =>
        /\ \A j \in 1..Len(finalEvents) :
               IsSynthetic(finalEvents[j]) =>
                   \A i \in 1..(j - 1) :
                       ~Includes(ToLowerCase(finalEvents[i].event),
                                 ToLowerCase(finalEvents[j].event))
        /\ \A i, j \in 1..Len(result.events) :
               (/\ i # j
                /\ IsSynthetic(result.events[i])
                /\ IsSynthetic(result.events[j]))
                   => result.events[i].event # result.events[j].event

\* C8 witness: the fill loop ran and skipped the category of a detected event
C8_Witness ==
    /\ pc = "done"
    /\ variant = "fill"
    /\ Len(detectedEvents) <= 2
    /\ \E i \in 1..Len(detectedEvents) : detectedEvents[i].event = SirenFreqLabel
    /\ \E i \in 1..Len(finalEvents) :
           IsSynthetic(finalEvents[i]) /\ finalEvents[i].event = Capitalize(HeavyImpact)
    /\ CountOf([i \in 1..Len(finalEvents) |-> finalEvents[i].event], SirenFreqLabel) = 1

\* C9 (as claimed): every synthetic event of the filled list has startTime
\* 1 + 1.5k and endTime 2 + 1.5k for its 0-based position k.
C9_TimesByPosition ==
    (pc = "done" /\ variant = "fill") =>
        \A j \in 1..Len(finalEvents) :
            IsSynthetic(finalEvents[j]) =>
                /\ finalEvents[j].startTime = 10 + 15 * (j - 1)
                /\ finalEvents[j].endTime = 20 + 15 * (j - 1)

\* the counters below c at which the fill loop pushed nothing
SkippedBefore(c) ==
    {d \in Len(detectedEvents)..(c - 1) :
        \A i \in 1..Len(finalEvents) : finalEvents[i].id # DummyPrefix \o ToDigits(d)}

\* C9 (amended): a filler event has startTime 1 + 1.5c and endTime 2 + 1.5c
\* for the loop counter c of its id dummy-c, which is its 0-based position
\* plus the number of categories skipped before it; the forced sneeze has the
\* span 3.0-3.5.
C9_TimesByCounter ==
    (pc = "done" /\ variant = "fill") =>
        \A j \in 1..Len(finalEvents) :
            IsSynthetic(finalEvents[j]) =>
                \/ /\ finalEvents[j].id = DummySneezeId
                   /\ finalEvents[j].startTime = 30
                   /\ finalEvents[j].endTime = 35
                \/ \E c \in 0..(MinResults - 1) :
                       /\ finalEvents[j].id = DummyPrefix \o ToDigits(c)
                       /\ finalEvents[j].startTime = 10 + 15 * c
                       /\ finalEvents[j].endTime = 20 + 15 * c
                       /\ c = (j - 1) + Cardinality(SkippedBefore(c))

\* C9 witness: a filler event pushed after a skipped category
C9_Witness ==
    /\ pc = "done"
    /\ variant = "fill"
    /\ \E j \in 1..Len(finalEvents) :
           /\ finalEvents[j].id = DummyPrefix \o ToDigits(4)
           /\ j = 4

\* C10: when no event matches (isDanger = false) generatePrecautionMessage is
\* not invoked in that analysis and precautionaryMessage is the empty string;
\* the generator is invoked only with a non-empty list of matched labels.
C10_NoAdvisoryWithoutDanger ==
    /\ (pc = "done" /\ variant = "danger" /\ ~result.isDanger)
           => (advisoryCalls = 0 /\ result.precautionaryMessage = "")
    /\ (pc = "advising" \/ advisoryCalls > 0) => dangerousEventsFound # <<>>

\* C10 witness: the danger version returned events, none dangerous, from a
\* response that had a dangerous label below the threshold
C10_Witness ==
    /\ pc = "done"
    /\ variant = "danger"
    /\ ~result.isDanger
    /\ result.events # <<>>
    /\ \E i \in 1..Len(classificationResult) : IsDangerous(classificationResult[i])

\* C11: whenever the returned result has isDanger = true its
\* precautionaryMessage is non-empty: an advisory model that yields no
\* content (no output object, or an output whose message is empty) gives the
\* fallback message.
C11_DangerMessageNonEmpty ==
    (pc = "done" /\ variant = "danger" /\ result.isDanger)
        => result.precautionaryMessage # ""

\* C12: in the summary version summarizeInsights is invoked exactly when the
\* filtered list is non-empty, and the result's summary is then the
\* generator's text; with an empty filtered list it is not invoked and the
\* summary is the fixed sentence.
C12_SummaryIffEventsKept ==
    /\ (variant = "summary" /\ pc \in {"summarizing", "done", "failed"}
            /\ classifierOutput # "error")
           => (summaryCalls = IF detectedEvents # <<>> THEN 1 ELSE 0)
    /\ (variant = "summary" /\ pc = "done") =>
           /\ result.events = detectedEvents
           /\ IF detectedEvents # <<>>
              THEN result.summary \in SummaryTexts
              ELSE result.summary = NoEventsSummary
    /\ variant # "summary" => summaryCalls = 0

\* the summary version returned the fixed sentence for a response whose
\* events were all below the threshold
C12_NotInvoked ==
    /\ variant = "summary"
    /\ pc = "done"
    /\ classificationResult # <<>>
    /\ detectedEvents = <<>>
    /\ summaryCalls = 0
    /\ result.summary = NoEventsSummary

\* C12 witness: the summary version returned the generator's text
C12_Witness ==
    /\ variant = "summary"
    /\ pc = "done"
    /\ summaryCalls = 1
    /\ result.summary \in SummaryTexts

\* C14: when the classifier model returns no structured output
\* the analysis fails: analyzeAudioClip throws and no result is returned, in
\* particular none made only of synthetic events.
C14_NoOutputFails ==
    classifierOutput = "null" => (pc = "failed" /\ result = NoResult)

\* C15 (as claimed): once the classifier succeeded and a dangerous event
\* matched, analyzeAudioClip returns a result whatever the advisory call
\* does: the analysis in flight never ends in failure.
C15_AdvisoryNeverFails ==
    (variant = "danger" /\ classifierOutput \in {"object", "null"}
         /\ dangerousEventsFound # <<>>)
        => pc \in {"advising", "done"}

\* C15 (amended): an advisory model that yields no output object is not
\* surfaced as a failure, the result carrying the generator's message or the
\* fallback; an advisory call that rejects ends the analysis in the fixed
\* error, without a result.
C15_AdvisoryRejectFails ==
    /\ advisoryOutput = "object" =>
           /\ pc = "done" /\ result.isDanger
           /\ result.precautionaryMessage \in AdvisoryMessages
    /\ advisoryOutput = "null" =>
           /\ pc = "done" /\ result.isDanger
           /\ result.precautionaryMessage
                  = "Undefined threat detected. Proceed with caution."
    /\ advisoryOutput = "error" => (pc = "failed" /\ result = NoResult)
    /\ (variant = "danger" /\ pc = "failed") =>
           \/ classifierOutput = "error"
           \/ advisoryOutput = "error"

\* C15 witness: the advisory call rejected after a dangerous event matched
C15_Witness ==
    /\ variant = "danger"
    /\ pc = "failed"
    /\ classifierOutput = "object"
    /\ dangerousEventsFound # <<>>
    /\ advisoryOutput = "error"

\* the history entries made for analysis j
EntriesOf(j) == {i \in 1..Len(analysisHistory) : analysisHistory[i].analysis = j}

\* C13: an analysis whose classifier call fails ends in failure without
\* filtering, fill or danger detection, without an advisory or summary call
\* afterwards, and without a result assembled or added to the history.
C13_ClassifierFailureAddsNothing ==
    \A j \in 1..Len(analyses) :
        analyses[j].cause = "classifier" =>
            /\ analyses[j].st \in {"rejected", "failed"}
            /\ analyses[j].pending = NoResult
            /\ analyses[j].generatorCalls = 0
            /\ analyses[j].result = NoResult
            /\ EntriesOf(j) = {}
            /\ analyses[j].st = "failed" =>
                   \/ error = "Failed to analyze the audio clip. Please try again."
                   \/ \E k \in 1..Len(analyses) :
                          analyses[k].before >= analyses[j].doneAt

\* C13 witness: the classifier call of one analysis failed and its error was
\* shown, while the history holds the result of another analysis
C13_Witness ==
    \E j \in 1..Len(analyses) :
        /\ analyses[j].cause = "classifier"
        /\ analyses[j].st = "failed"
        /\ error = AnalysisError
        /\ Len(analysisHistory) = 1

\* C16: a chosen file starts an analysis only if its size is at most
\* 5 * 1024 * 1024 bytes and its media type starts with "audio/"; any other
\* file is refused with a notice, no analysis is started and the history,
\* the loading flag and the error state stay as they were.
C16_OnlyAudioWithinLimitAnalysed ==
    /\ [](\A j \in 1..Len(analyses) :
              /\ analyses[j].file.size <= 5242880
              /\ SubSeq(analyses[j].file.type, 1, 6) = <<97, 117, 100, 105, 111, 47>>)
    /\ [][\A file \in Files :
              HandleFileChange(file) =>
                  IF /\ file.size <= 5242880
                     /\ SubSeq(file.type, 1, 6) = <<97, 117, 100, 105, 111, 47>>
                  THEN /\ Len(analyses') = Len(analyses) + 1
                       /\ analyses'[Len(analyses')].file = file
                       /\ analyses'[Len(analyses')].st = "reading"
                  ELSE /\ toast' \in {"File too large", "Invalid file type"}
                       /\ analyses' = analyses
                       /\ analysisHistory' = analysisHistory
                       /\ isLoading' = isLoading
                       /\ error' = error]_vars

\* C16 witness: a file of exactly the size limit is being analysed and the
\* last notice refused a file that is not audio
C16_Witness ==
    /\ analyses # <<>>
    /\ analyses[1].file.size = MaxFileSize
    /\ analyses[1].st = "classifying"
    /\ toast = "Invalid file type"

\* C17: after n successful analyses run one after the other from an empty
\* history, the history has n entries, the most recently completed analysis
\* at index 0 and the earlier ones behind it in reverse order of completion.
C17_SequentialNewestFirst ==
    (\A j \in 1..Len(analyses) :
         /\ analyses[j].st = "added"
         /\ analyses[j].doneAt = analyses[j].before + 1)
        => /\ Len(analysisHistory) = Len(analyses)
           /\ \A i \in 1..Len(analysisHistory) :
                  analyses[analysisHistory[i].analysis].doneAt
                      = Len(analyses) - i + 1

\* C17 witness: two analyses succeeded one after the other
C17_Witness ==
    /\ Len(analyses) = MaxAnalyses
    /\ \A j \in 1..Len(analyses) :
           /\ analyses[j].st = "added"
           /\ analyses[j].doneAt = analyses[j].before + 1
    /\ analysisHistory[1].timestamp > analysisHistory[2].timestamp

\* C18: with several analyses in flight at once, in every interleaving the
\* history holds exactly one entry for each analysis that succeeded and none
\* for the others, ordered most recently completed first, the timestamps
\* not increasing from index 0 on.
C18_OneEntryPerAnalysisNewestFirst ==
    /\ \A j \in 1..Len(analyses) :
           Cardinality(EntriesOf(j)) = IF analyses[j].st = "added" THEN 1 ELSE 0
    /\ \A i \in 1..Len(analysisHistory) :
           analysisHistory[i].analysis \in 1..Len(analyses)
    /\ \A i \in 1..(Len(analysisHistory) - 1) :
           /\ analyses[analysisHistory[i].analysis].doneAt
                  > analyses[analysisHistory[i + 1].analysis].doneAt
           /\ analysisHistory[i].timestamp >= analysisHistory[i + 1].timestamp

\* C18 witness: two analyses were in flight together and completed in the
\* reverse of the order their files were chosen in, at different times
C18_Witness ==
    /\ Len(analyses) = MaxAnalyses
    /\ \A j \in 1..Len(analyses) : analyses[j].st = "added" /\ analyses[j].before = 0
    /\ analyses[2].doneAt = 1
    /\ analysisHistory[1].analysis = 1
    /\ analysisHistory[1].timestamp > analysisHistory[2].timestamp

\* C19: every step leaves the history as it is or puts exactly one new
\* result in front of the entries it had; the continuation of a failed
\* analysis leaves the history and the other analyses as they are, and an
\* analysis whose call resolved can always be added.
C19_HistoryAppendOnly ==
    /\ [](\A k \in 1..Len(analyses) :
              analyses[k].st = "resolved" => ENABLED HandleResolved(k))
    /\ [][/\ \/ analysisHistory' = analysisHistory
             \/ /\ Len(analysisHistory') = Len(analysisHistory) + 1
                /\ Tail(analysisHistory') = analysisHistory
          /\ \A j \in 1..Len(analyses) :
                 (analyses[j].st = "rejected" /\ analyses'[j].st = "failed")
                     => /\ analysisHistory' = analysisHistory
                        /\ \A k \in (1..Len(analyses)) \ {j} :
                               analyses'[k] = analyses[k]]_vars

\* C19 witness: of two analyses in flight together one failed first and the
\* other was added to the history after it
C19_Witness ==
    /\ Len(analyses) = MaxAnalyses
    /\ \A j \in 1..Len(analyses) : analyses[j].before = 0
    /\ \E j, k \in 1..Len(analyses) :
           /\ analyses[j].st = "failed" /\ analyses[j].doneAt = 1
           /\ analyses[k].st = "added" /\ analyses[k].doneAt = 2
    /\ Len(analysisHistory) = 1

\* C20: the ids of the history's entries are pairwise distinct, in every
\* interleaving and whatever the clock reads when a result is assembled.
C20_IdsDistinct ==
    \A i, k \in 1..Len(analysisHistory) :
        i # k => analysisHistory[i].id # analysisHistory[k].id

\* the positions of the dangerous events in the filtered and sorted list
DangerousPositions == {i \in 1..Len(detectedEvents) : IsDangerous(detectedEvents[i])}

C22_InputNotMutated ==
    classifierOutput \in {"object", "null"} => classificationResult = returnedEvents

\* C22 witness: the fill version filtered, reordered and filled a response
\* that was not in descending order of confidence
C22_Witness ==
    /\ variant = "fill"
    /\ pc = "done"
    /\ ~IsSortedDesc(returnedEvents)
    /\ Len(detectedEvents) < Len(returnedEvents)
    /\ Len(detectedEvents) >= 2
    /\ detectedEvents # FilterByConfidence(returnedEvents, HighThreshold)
    /\ Len(finalEvents) > Len(detectedEvents)

\* the i-th returned event was made by the program: the fill version pushes
\* its events behind the filtered ones
MadeByProgram(i) == variant = "fill" /\ i > Len(detectedEvents)

\* the id begins with "dummy-"
HasDummyId(e) == Len(e.id) >= 6 /\ SubSeq(e.id, 1, 6) = <<100, 117, 109, 109, 121, 45>>

\* C23: every event the program made has an id beginning with "dummy-", the
\* ids of such events within a result are pairwise distinct, and when the
\* classifier's ids are pairwise distinct and do not begin with "dummy-",
\* all ids of a result are pairwise distinct and an id begins with "dummy-"
\* exactly when the program made the event.
C23_DummyIdsReservedAndDistinct ==
    pc = "done" =>
        LET ev == result.events
            n  == Len(ev)
        IN  /\ \A i \in 1..n : MadeByProgram(i) => HasDummyId(ev[i])
            /\ \A i, j \in 1..n :
                   (i # j /\ MadeByProgram(i) /\ MadeByProgram(j)) => ev[i].id # ev[j].id
            /\ (/\ \A i, j \in 1..Len(returnedEvents) :
                       i # j => returnedEvents[i].id # returnedEvents[j].id
                /\ \A i \in 1..Len(returnedEvents) : ~HasDummyId(returnedEvents[i]))
                   => /\ \A i, j \in 1..n : i # j => ev[i].id # ev[j].id
                      /\ \A i \in 1..n : HasDummyId(ev[i]) <=> MadeByProgram(i)

\* C23 witness: a result of five events with a detected event, numbered
\* fillers and the forced sneeze
C23_Witness ==
    /\ pc = "done"
    /\ variant = "fill"
    /\ Len(result.events) = MaxResults
    /\ ~MadeByProgram(1)
    /\ \E i, j \in 1..Len(result.events) :
           /\ result.events[i].id = DummySneezeId
           /\ result.events[j].id = DummyPrefix \o ToDigits(1)

\* the clip's length in tenths of a second
ClipDuration == 100

\* 0 <= startTime < endTime <= 10
WithinClip(e) == 0 <= e.startTime /\ e.startTime < e.endTime /\ e.endTime <= ClipDuration

\* C24: every event the program makes up lies within the clip: the events the
\* demo-fill version pushes behind the filtered ones (fillers and the forced
\* sneeze, whether or not the cap keeps them) and all events of the mock
\* generator satisfy 0 <= startTime < endTime <= 10.
C24_CreatedEventsWithinClip ==
    /\ variant = "fill" =>
           \A i \in (Len(detectedEvents) + 1)..Len(finalEvents) : WithinClip(finalEvents[i])
    /\ variant = "mock" =>
           \A i \in 1..Len(classificationResult) : WithinClip(classificationResult[i])

\* C24 witness: the mock generator made an event that ends with the clip and
\* its sneeze starts at 8.0 s
C24_Witness ==
    /\ variant = "mock"
    /\ \E i, j \in 1..Len(classificationResult) :
           /\ classificationResult[i].id # EvtSneezeId
           /\ classificationResult[i].endTime = ClipDuration
           /\ classificationResult[j].id = EvtSneezeId
           /\ classificationResult[j].startTime = 80

\* C24, second case reached: the demo-fill version pushed the last filler
\* and the forced sneeze
C24_FillReached ==
    /\ variant = "fill"
    /\ \E i, j \in (Len(detectedEvents) + 1)..Len(finalEvents) :
           /\ finalEvents[i].id = DummySneezeId
           /\ finalEvents[j].endTime = 80

\* C25: the events the demo-fill version returns always contain an event
\* whose label contains "baby sneeze" (case-insensitive); when none was
\* detected, the forced event with id "dummy-sneeze" is in the returned list.
C25_SneezeAlwaysReturned ==
    (pc = "done" /\ variant = "fill") =>
        /\ SomeIncludes(result.events, BabySneezeCat)
        /\ ~SomeIncludes(detectedEvents, BabySneezeCat) =>
               \E i \in 1..Len(result.events) : result.events[i].id = DummySneezeId

\* C27: isLoading is true in every state in which an analysis has been
\* started and has not yet completed or failed, and false once no analysis
\* is in flight.
C27_LoadingWhileInFlight == isLoading <=> InFlight # {}

\* C27, the part that holds: with no analysis in flight the flag is down
C27_IdleNotLoading == InFlight = {} => ~isLoading

\* the request for which handleAnalysis was called last
LatestRequest == CHOOSE k \in Started : \A l \in Started : analyses[l].order <= analyses[k].order

\* C26: in the single-result client, when an analysis was requested while an
\* earlier one was in flight, then once they have completed the displayed
\* analysis (events, summary, audio source, file name) is that of the most
\* recently requested clip, in whatever order they completed.
C26_LatestRequestDisplayed ==
    (/\ Cardinality(Started) >= 2
     /\ \A k \in Started : analyses[k].st = "shown"
     /\ analyses[LatestRequest].overlap)
        => analysis = analyses[LatestRequest].display

\* C28: clicking an event of a history entry sets the playback position of
\* that same entry's audio player to the event's start time, for every entry
\* of a history of more than one, and leaves the history unchanged.
C28_ClickSeeksOwnPlayer ==
    [][\A i \in 1..Len(analysisHistory) :
         \A e \in 1..Len(analysisHistory[i].events) :
            ClickEvent(i, e) =>
                /\ currentTime'[analysisHistory[i].analysis] =
                       analysisHistory[i].events[e].startTime
                /\ analysisHistory' = analysisHistory]_vars

\* C28, the part that holds: a click leaves the history unchanged and seeks
\* the player of the entry added last
C28_ClickSeeksNewestPlayer ==
    [][\A i \in 1..Len(analysisHistory) :
         \A e \in 1..Len(analysisHistory[i].events) :
            ClickEvent(i, e) =>
                /\ currentTime'[analysisHistory[1].analysis] =
                       analysisHistory[i].events[e].startTime
                /\ analysisHistory' = analysisHistory]_vars

\* the analyses started for recording k
AnalysesOf(k) ==
    {j \in 1..Len(analyses) :
        "recording" \in DOMAIN analyses[j].file /\ analyses[j].file.recording = k}

\* a recording is stopped only by the user's stop action or by the timer set
\* when that same recording started
StoppedByUserOrOwnTimer ==
    \A k \in 1..Len(recordings) :
        \/ recordings[k].stoppedBy \in {"none", "user"}
        \/ recordings[k].stoppedBy = "timer" /\ recordings[k].timerOf = k

\* a recording never triggers more than one analysis, and has triggered one
\* once its stop event was handled
OneAnalysisPerRecording ==
    \A k \in 1..Len(recordings) :
        /\ Cardinality(AnalysesOf(k)) <= 1
        /\ recordings[k].onstop = "handled" <=> Cardinality(AnalysesOf(k)) = 1

\* C29: a microphone recording is stopped only by the user's stop action or
\* by the 10-second timer set when that same recording started, a timer left
\* over from an earlier, manually stopped recording never stopping a later
\* one, and each recording triggers exactly one analysis.
C29_RecordingStopsAndAnalysis == StoppedByUserOrOwnTimer /\ OneAnalysisPerRecording

\* C29, the part that holds: no recording triggers two analyses, and one is
\* triggered as soon as the recording's stop event was handled
C29_AtMostOneAnalysis == OneAnalysisPerRecording

\* C29, the case of the claim: the timer of a recording the user stopped has
\* stopped a later recording
C29_LeftoverTimerStops ==
    \E k, l \in 1..Len(recordings) :
        /\ k < l
        /\ recordings[k].stoppedBy = "user"
        /\ recordings[l].stoppedBy = "timer"
        /\ recordings[l].timerOf = k

\* a recorder that is recording is the one stopRecording can stop
RecordingIsStoppable ==
    \A k \in 1..Len(recordings) :
        recordings[k].state = "recording" => mediaRecorderRef = k

====
